---- MODULE Spec2Model ----
(***************************************************************************)
(* Model of backend/app.py: the reference catalog builder (_load_dataset), *)
(* the read-only endpoints /health, /makes, /models/{make} and the         *)
(* /valuation endpoint with its depreciation and confidence computation.   *)
(*                                                                         *)
(* Representation choices                                                  *)
(*  - A Python str is a sequence of one-character strings, so that         *)
(*    strip(), lower(), slicing and ISO date parsing are computed.         *)
(*  - A Python float is an IEEE-754 binary64 number, kept as sign,         *)
(*    53-bit mantissa (in 15-bit limbs) and binary exponent.  Every        *)
(*    product, difference and quotient is rounded to the nearest double,   *)
(*    ties to even, as the hardware does; round(x, 2) is half-to-even on   *)
(*    the exact binary value and yields an integer number of hundredths.   *)
(*    Infinities, NaN, subnormals and the sign of zero are not             *)
(*    represented.                                                         *)
(*  - ** on floats is the pow of the C library the interpreter runs with   *)
(*    (CPython 3.11 on glibc 2.36, x86-64), which is not correctly         *)
(*    rounded.  For the base 1 - ANNUAL_DEPRECIATION and the exponents     *)
(*    m / 12 that _years_since forms it returns the double nearest to the  *)
(*    exact power, except at the month counts of PowFartherMonths, where   *)
(*    the exact power lies within 1/16 ulp of the midpoint of two doubles  *)
(*    and pow returns the farther of the two.  From 117138 months on the   *)
(*    power is subnormal and not represented.                              *)
(*  - The builder's input is the DataFrame that pd.read_csv/read_excel     *)
(*    returns: column labels, one dtype per column and rows of cells.  A   *)
(*    cell of an object column is a str, of an int64 column the integer,   *)
(*    of a float64 column the number of hundredths.  Cells are never       *)
(*    missing; a value column (base_price, year0, price,                   *)
(*    registration_year) is int64 or float64; the labels price and         *)
(*    registration_year occur at most once after normalization.  Cell      *)
(*    values, and estimates in hundredths, are below 2^31.                 *)
(***************************************************************************)
EXTENDS Integers, Sequences, FiniteSets

VARIABLES files, phase, REF_DATA, now, ticks, workers

vars == <<files, phase, REF_DATA, now, ticks, workers>>

Max(a, b) == IF a >= b THEN a ELSE b
Min(a, b) == IF a <= b THEN a ELSE b
Abs(a) == IF a >= 0 THEN a ELSE -a

(***************************************************************************)
(* Strings                                                                 *)
(***************************************************************************)
\* The characters of the model in code-point order.
Alphabet ==
    << "\t", " ", "-", ".", "/",
       "0", "1", "2", "3", "4", "5", "6", "7", "8", "9", ":",
       "A", "B", "C", "D", "E", "F", "G", "H", "I", "J", "K", "L", "M",
       "N", "O", "P", "Q", "R", "S", "T", "U", "V", "W", "X", "Y", "Z", "_",
       "a", "b", "c", "d", "e", "f", "g", "h", "i", "j", "k", "l", "m",
       "n", "o", "p", "q", "r", "s", "t", "u", "v", "w", "x", "y", "z" >>

\* ord(c), as the position in Alphabet
OrdMap ==
    [c \in {Alphabet[i] : i \in 1..Len(Alphabet)} |->
        CHOOSE i \in 1..Len(Alphabet) : Alphabet[i] = c]
Ord(c) == OrdMap[c]

IsSpace(c) == c \in {" ", "\t"}
IsUpper(c) == Ord(c) >= Ord("A") /\ Ord(c) <= Ord("Z")
IsDigit(c) == Ord(c) >= Ord("0") /\ Ord(c) <= Ord("9")
DigitVal(c) == Ord(c) - Ord("0")

\* str.lower()
LowerChar(c) == IF IsUpper(c) THEN Alphabet[Ord(c) + (Ord("a") - Ord("A"))] ELSE c
Lower(s) == [i \in 1..Len(s) |-> LowerChar(s[i])]

\* str.strip()
RECURSIVE LStrip(_)
LStrip(s) == IF s # <<>> /\ IsSpace(Head(s)) THEN LStrip(Tail(s)) ELSE s
RECURSIVE RStrip(_)
RStrip(s) ==
    IF s # <<>> /\ IsSpace(s[Len(s)]) THEN RStrip(SubSeq(s, 1, Len(s) - 1)) ELSE s
Strip(s) == RStrip(LStrip(s))

\* Normalize without the lower-casing
Normalize_strip_only(s) == Strip(s)

\* s.strip().lower(), as applied to column names, catalog keys and request keys
Normalize(s) == Lower(Strip(s))

\* s[:n]
Prefix(s, n) == SubSeq(s, 1, Min(n, Len(s)))

\* s < t in Python's (code-point, lexicographic) order
RECURSIVE StrLess(_, _)
StrLess(s, t) ==
    IF t = <<>> THEN FALSE
    ELSE IF s = <<>> THEN TRUE
    ELSE IF Head(s) # Head(t) THEN Ord(Head(s)) < Ord(Head(t))
    ELSE StrLess(Tail(s), Tail(t))

\* sorted(S) for a set of strings
RECURSIVE SortedStrs(_)
SortedStrs(S) ==
    IF S = {} THEN <<>>
    ELSE LET m == CHOOSE x \in S : \A y \in S : y = x \/ StrLess(x, y)
         IN  <<m>> \o SortedStrs(S \ {m})


\* str(n) for an int
RECURSIVE Digits(_)
Digits(n) == IF n < 10 THEN <<Alphabet[Ord("0") + n]>>
             ELSE Digits(n \div 10) \o <<Alphabet[Ord("0") + (n % 10)]>>
IntToStr(n) == IF n < 0 THEN <<"-">> \o Digits(-n) ELSE Digits(n)

\* str(x) for the float of h hundredths: the shortest decimal, at least one
\* fractional digit
HundredthsToStr(h) ==
    LET a == Abs(h)
        frac == IF a % 100 = 0 THEN <<"0">>
                ELSE IF a % 10 = 0 THEN Digits((a % 100) \div 10)
                ELSE Digits((a % 100) \div 10) \o Digits(a % 10)
    IN  (IF h < 0 THEN <<"-">> ELSE <<>>) \o Digits(a \div 100) \o <<".">> \o frac

(***************************************************************************)
(* Binary floating point (IEEE-754 binary64) standing for Python floats    *)
(***************************************************************************)
\* A magnitude is a little-endian sequence of limbs in 0..Radix-1.
Radix == 2 ^ 15
Pow2 == [i \in 0..30 |-> 2 ^ i]

RECURSIVE Limbs(_)
Limbs(n) == IF n = 0 THEN <<>> ELSE <<n % Radix>> \o Limbs(n \div Radix)

RECURSIVE Trim(_)
Trim(a) == IF a # <<>> /\ a[Len(a)] = 0 THEN Trim(SubSeq(a, 1, Len(a) - 1)) ELSE a

RECURSIVE LimbsToInt(_)
LimbsToInt(a) == IF a = <<>> THEN 0 ELSE Head(a) + Radix * LimbsToInt(Tail(a))

RECURSIVE AddL(_, _, _)
AddL(a, b, c) ==
    IF a = <<>> /\ b = <<>> THEN Limbs(c)
    ELSE LET x == (IF a = <<>> THEN 0 ELSE Head(a)) + (IF b = <<>> THEN 0 ELSE Head(b)) + c
         IN  <<x % Radix>> \o AddL(IF a = <<>> THEN a ELSE Tail(a),
                                   IF b = <<>> THEN b ELSE Tail(b), x \div Radix)

\* a - b for magnitudes with a >= b
RECURSIVE SubL(_, _, _)
SubL(a, b, borrow) ==
    IF a = <<>> THEN <<>>
    ELSE LET x == Head(a) - (IF b = <<>> THEN 0 ELSE Head(b)) - borrow
         IN  <<x % Radix>> \o SubL(Tail(a), IF b = <<>> THEN b ELSE Tail(b),
                                   IF x < 0 THEN 1 ELSE 0)

RECURSIVE MulSmall(_, _, _)
MulSmall(a, k, c) ==
    IF a = <<>> THEN Limbs(c)
    ELSE LET x == Head(a) * k + c
         IN  <<x % Radix>> \o MulSmall(Tail(a), k, x \div Radix)

\* a * k + acc + c for limbs k and c
RECURSIVE MulAdd(_, _, _, _)
MulAdd(a, k, acc, c) ==
    IF a = <<>> THEN AddL(acc, <<>>, c)
    ELSE LET x == Head(a) * k + (IF acc = <<>> THEN 0 ELSE Head(acc)) + c
         IN  <<x % Radix>> \o MulAdd(Tail(a), k, IF acc = <<>> THEN acc ELSE Tail(acc),
                                     x \div Radix)

RECURSIVE MulL(_, _)
MulL(a, b) ==
    IF b = <<>> THEN <<>>
    ELSE IF Head(b) = 0 THEN <<0>> \o MulL(a, Tail(b))
    ELSE MulAdd(a, Head(b), <<0>> \o MulL(a, Tail(b)), 0)

\* Quotient and remainder of a magnitude by d, 0 < d < 2^16
RECURSIVE DivSmall(_, _)
DivSmall(a, d) ==
    IF a = <<>> THEN [q |-> <<>>, r |-> 0]
    ELSE LET hi  == DivSmall(Tail(a), d)
             cur == hi.r * Radix + Head(a)
         IN  [q |-> <<cur \div d>> \o hi.q, r |-> cur % d]

\* -1, 0, 1 as a < b, a = b, a > b; both trimmed
RECURSIVE CmpT(_, _)
CmpT(a, b) ==
    IF Len(a) # Len(b) THEN (IF Len(a) < Len(b) THEN -1 ELSE 1)
    ELSE IF a = <<>> THEN 0
    ELSE IF a[Len(a)] # b[Len(b)] THEN (IF a[Len(a)] < b[Len(b)] THEN -1 ELSE 1)
    ELSE CmpT(SubSeq(a, 1, Len(a) - 1), SubSeq(b, 1, Len(b) - 1))
CmpL(a, b) == CmpT(Trim(a), Trim(b))

Zeros(n) == [i \in 1..n |-> 0]

\* The number of bits of a trimmed magnitude
BitLen(a) ==
    IF a = <<>> THEN 0
    ELSE 15 * (Len(a) - 1)
         + (CHOOSE b \in 1..15 : Pow2[b - 1] <= a[Len(a)] /\ a[Len(a)] < Pow2[b])

\* a * 2^s
ShiftLeft(a, s) ==
    IF a = <<>> THEN <<>> ELSE Zeros(s \div 15) \o MulSmall(a, Pow2[s % 15], 0)

\* floor(a / 2^s)
ShiftRight(a, s) ==
    LET b  == s % 15
        hi == SubSeq(a, s \div 15 + 1, Len(a))
    IN  Trim([i \in 1..Len(hi) |->
                 (hi[i] \div Pow2[b])
                 + (IF i < Len(hi) THEN (hi[i + 1] % Pow2[b]) * Pow2[15 - b] ELSE 0)])

IsOdd(a) == a # <<>> /\ a[1] % 2 = 1

\* The integer nearest to a / 2^s (s >= 1), ties to the even one: bit s - 1
\* of a says whether the remainder reaches a half, the bits below it whether
\* it exceeds a half
RoundShift(a, s) ==
    LET q      == ShiftRight(a, s)
        w      == (s - 1) \div 15
        b      == (s - 1) % 15
        limb   == IF w < Len(a) THEN a[w + 1] ELSE 0
        half   == (limb \div Pow2[b]) % 2 = 1
        sticky == limb % Pow2[b] # 0 \/ \E i \in 1..Min(w, Len(a)) : a[i] # 0
    IN  IF half /\ (sticky \/ IsOdd(q)) THEN Trim(AddL(q, <<1>>, 0)) ELSE q

\* The dyadic rational (-1)^neg * man * 2^exp, man a trimmed magnitude
Dyadic(n, m, e) == [neg |-> n, man |-> m, exp |-> e]
DInt(n) == Dyadic(n < 0, Limbs(Abs(n)), 0)
DIsZero(x) == x.man = <<>>
DNeg(x) == [x EXCEPT !.neg = ~x.neg]
\* x * 2^k
DScale(x, k) == IF DIsZero(x) THEN x ELSE [x EXCEPT !.exp = @ + k]

DMul(x, y) == Dyadic(x.neg # y.neg, Trim(MulL(x.man, y.man)), x.exp + y.exp)

DAdd(x, y) ==
    LET e == Min(x.exp, y.exp)
        a == ShiftLeft(x.man, x.exp - e)
        b == ShiftLeft(y.man, y.exp - e)
    IN  IF x.neg = y.neg THEN Dyadic(x.neg, Trim(AddL(a, b, 0)), e)
        ELSE IF CmpL(a, b) >= 0 THEN Dyadic(x.neg, Trim(SubL(a, b, 0)), e)
        ELSE Dyadic(y.neg, Trim(SubL(b, a, 0)), e)

DSub(x, y) == DAdd(x, DNeg(y))

\* -1, 0, 1 as x < y, x = y, x > y
DCmp(x, y) ==
    LET d == DSub(x, y)
    IN  IF DIsZero(d) THEN 0 ELSE IF d.neg THEN -1 ELSE 1

\* The integer nearest to x, ties to the even one
DRound(x) ==
    LET m == IF x.exp >= 0 THEN ShiftLeft(x.man, x.exp) ELSE RoundShift(x.man, -x.exp)
    IN  IF x.neg THEN -LimbsToInt(m) ELSE LimbsToInt(m)

\* int(x): truncation toward zero
DTrunc(x) ==
    LET m == IF x.exp >= 0 THEN ShiftLeft(x.man, x.exp) ELSE ShiftRight(x.man, -x.exp)
    IN  IF x.neg THEN -LimbsToInt(m) ELSE LimbsToInt(m)

\* The double nearest to the dyadic x, ties to the even mantissa; the
\* mantissa of a non-zero double has exactly 53 bits.
Float(x) ==
    IF DIsZero(x) THEN Dyadic(FALSE, <<>>, 0)
    ELSE LET L == BitLen(x.man)
         IN  IF L <= 53
             THEN Dyadic(x.neg, ShiftLeft(x.man, 53 - L), x.exp - (53 - L))
             ELSE LET q == RoundShift(x.man, L - 53)
                  IN  IF BitLen(q) > 53
                      THEN Dyadic(x.neg, ShiftRight(q, 1), x.exp + (L - 52))
                      ELSE Dyadic(x.neg, q, x.exp + (L - 53))

FZero == Float(DInt(0))
\* float(n)
FInt(n) == Float(DInt(n))
FMul(x, y) == Float(DMul(x, y))
FAdd(x, y) == Float(DAdd(x, y))
FSub(x, y) == Float(DSub(x, y))

RECURSIVE OddPart(_)
OddPart(d) == IF d % 2 = 0 THEN OddPart(d \div 2) ELSE d
RECURSIVE TwoExp(_)
TwoExp(d) == IF d % 2 = 0 THEN 1 + TwoExp(d \div 2) ELSE 0

\* x / float(d) for an integer d > 0 with odd part below 2^16: the exact
\* quotient to 30 extra bits (at least 66 bits), a sticky bit for the rest,
\* rounded once
FDiv(x, d) ==
    LET n == DivSmall(ShiftLeft(x.man, 30), OddPart(d))
    IN  Float(Dyadic(x.neg,
                     Trim(MulSmall(Trim(n.q), 2, IF n.r = 0 THEN 0 ELSE 1)),
                     x.exp - 31 - TwoExp(d)))

\* The float literal n / d, as 0.07 is 7 / 100
Literal(n, d) == FDiv(FInt(n), d)

\* max(x, y) and min(x, y): the first argument unless the second is beyond it
FMax(x, y) == IF DCmp(y, x) > 0 THEN y ELSE x
FMin(x, y) == IF DCmp(y, x) < 0 THEN y ELSE x

\* round(x, 2), as a number of hundredths
Round2(x) == DRound(DMul(x, DInt(100)))

\* x with the n most significant limbs of its mantissa (a truncation to at
\* least 15 * (n - 1) + 1 bits)
KeepTop(x, n) ==
    IF Len(x.man) <= n THEN x
    ELSE Dyadic(x.neg, SubSeq(x.man, Len(x.man) - n + 1, Len(x.man)),
                x.exp + 15 * (Len(x.man) - n))

\* Products and integer powers kept to 7 limbs (over 90 bits)
WMul(x, y) == KeepTop(DMul(x, y), 7)
RECURSIVE WPow(_, _)
WPow(b, k) ==
    IF k = 0 THEN DInt(1)
    ELSE LET h == WPow(b, k \div 2)
             s == WMul(h, h)
         IN  IF k % 2 = 1 THEN WMul(s, b) ELSE s

\* The neighbouring double of x on the other side of x from Float(x)
Farther(x) ==
    LET L  == BitLen(x.man)
        lo == Dyadic(x.neg, ShiftRight(x.man, L - 53), x.exp + (L - 53))
    IN  IF DCmp(Float(x), lo) = 0
        THEN Float(Dyadic(x.neg, Trim(AddL(lo.man, <<1>>, 0)), lo.exp))
        ELSE lo

\* The month counts m below 117138 at which pow(1 - ANNUAL_DEPRECIATION,
\* m / 12.0) is not the double nearest to the exact power
PowFartherMonths ==
    { 975, 1974, 2206, 2222, 2934, 3919, 6521, 9071, 10127, 10553, 10726,
      11459, 11565, 11635, 11917, 12419, 13064, 13130, 13832, 14014, 14179,
      15619, 20232, 23985, 24601, 28822, 28905, 30736, 32967, 33119, 33996,
      34721, 37642, 42094, 42122, 44509, 44638, 45160, 45683, 46709, 47396,
      48449, 50196, 53050, 53509, 54287, 54844, 55376, 56046, 56625, 56742,
      58409, 58469, 58974, 59264, 63085, 65859, 66314, 66544, 68573, 70793,
      70884, 72341, 72522, 72863, 74172, 76141, 76415, 76418, 76887, 79355,
      79821, 80300, 80519, 82705, 82912, 82986, 84566, 85365, 86224, 86309,
      88056, 88835, 90288, 91814, 91942, 92110, 92225, 92956, 95513, 96038,
      97036, 99226, 100243, 101612, 102881, 102975, 103018, 105090, 106794,
      109627, 111999, 113396, 113611, 113839, 114755, 116282, 117029 }

(***************************************************************************)
(* Config                                                                  *)
(***************************************************************************)
ANNUAL_DEPRECIATION == Literal(7, 100)         \* 0.07
PER_10K_DEPRECIATION == Literal(15, 1000)      \* 0.015
MILEAGE_BUCKET == 10000
MIN_RETENTION == Literal(35, 100)              \* 0.35

\* The float literals of valuation()
F1 == FInt(1)
F0_8 == Literal(8, 10)
F1_05 == Literal(105, 100)
F0_9 == Literal(9, 10)
F0_06 == Literal(6, 100)
F0_5 == Literal(1, 2)

\* b ** (r / 12) for r = 1..11 and the double b = 1 - ANNUAL_DEPRECIATION,
\* as floor(value * 2^105)
RetentionRoot12 ==
    << <<5997, 23121, 25163, 6357, 24891, 14143, 32570>>,
       <<22651, 9354, 28225, 16266, 25518, 1784, 32374>>,
       <<12093, 9421, 22431, 18857, 23392, 28223, 32178>>,
       <<19156, 29885, 25279, 17681, 20984, 27690, 31984>>,
       <<32419, 6685, 1897, 19526, 1445, 32721, 31791>>,
       <<19393, 18605, 24186, 13077, 26632, 10315, 31600>>,
       <<31585, 16105, 25034, 2641, 7454, 25781, 31409>>,
       <<5916, 29492, 1855, 31043, 31276, 13352, 31220>>,
       <<18413, 9529, 16477, 27543, 1202, 5572, 31032>>,
       <<23633, 4967, 26131, 4733, 29013, 2212, 30845>>,
       <<8085, 16067, 5573, 14250, 8914, 3051, 30659>> >>

\* -ln(b) / 12 for the same b, as floor(value * 2^52)
RetentionLog12 == <<10807, 9686, 25365>>

(***************************************************************************)
(* Dates                                                                   *)
(***************************************************************************)
IsLeap(y) == (y % 4 = 0 /\ y % 100 # 0) \/ y % 400 = 0
DaysInMonth(y, m) ==
    IF m = 2 THEN (IF IsLeap(y) THEN 29 ELSE 28)
    ELSE IF m \in {4, 6, 9, 11} THEN 30 ELSE 31

\* The proleptic Gregorian ordinal of a date (0001-01-01 is day 1)
DaysBeforeYear(y) == (y - 1) * 365 + (y - 1) \div 4 - (y - 1) \div 100 + (y - 1) \div 400
RECURSIVE DaysBeforeMonth(_, _)
DaysBeforeMonth(y, m) ==
    IF m = 1 THEN 0 ELSE DaysBeforeMonth(y, m - 1) + DaysInMonth(y, m - 1)
Ymd2Ord(y, m, d) == DaysBeforeYear(y) + DaysBeforeMonth(y, m) + d
MaxOrdinal == Ymd2Ord(9999, 12, 31)

\* The date of an ordinal known to fall in year y - 1, y or y + 1
Ord2Ymd(n, y) ==
    LET yy == CHOOSE c \in {y - 1, y, y + 1} :
                  DaysBeforeYear(c) < n /\ n <= DaysBeforeYear(c + 1)
        r  == n - DaysBeforeYear(yy)
        mm == CHOOSE c \in 1..12 :
                  DaysBeforeMonth(yy, c) < r /\ r <= DaysBeforeMonth(yy, c) + DaysInMonth(yy, c)
    IN  [year |-> yy, month |-> mm, day |-> r - DaysBeforeMonth(yy, mm)]

\* The ordinal of the Monday of ISO week 1 of year y
IsoWeek1Monday(y) ==
    LET firstday     == Ymd2Ord(y, 1, 1)
        firstweekday == (firstday + 6) % 7
    IN  IF firstweekday > 3 THEN firstday - firstweekday + 7 ELSE firstday - firstweekday

\* Whether ISO year y has a week 53
HasWeek53(y) ==
    LET first_weekday == Ymd2Ord(y, 1, 1) % 7
    IN  first_weekday = 4 \/ (first_weekday = 3 /\ IsLeap(y))

\* int() of the n characters of t from position i; -1 unless all n are there
\* and are digits
RECURSIVE DigitsVal(_)
DigitsVal(s) ==
    IF s = <<>> THEN 0 ELSE 10 * DigitsVal(SubSeq(s, 1, Len(s) - 1)) + DigitVal(s[Len(s)])
Num(t, i, n) ==
    IF i + n - 1 <= Len(t) /\ \A j \in i..(i + n - 1) : IsDigit(t[j])
    THEN DigitsVal(SubSeq(t, i, i + n - 1)) ELSE -1

NoDate == [ok |-> FALSE]
Date(y, m, d) == [ok |-> TRUE, year |-> y, month |-> m, day |-> d]

\* The length of the date part of t (7 <= Len(t) <= 10), 0 for a ValueError
DateLength(t) ==
    IF Len(t) = 7 THEN 7
    ELSE IF t[5] = "-"
    THEN IF t[6] = "W"
         THEN IF Len(t) > 8 /\ t[9] = "-"
              THEN (IF Len(t) = 9 THEN 0 ELSE 10)
              ELSE 8
         ELSE 10
    ELSE IF t[5] = "W"
    THEN LET idx == 7 + Cardinality({j \in 8..Len(t) : \A k \in 8..j : IsDigit(t[k])})
         IN  IF idx < 9 THEN idx ELSE IF idx % 2 = 0 THEN 7 ELSE 8
    ELSE 8

\* YYYY-Www[-D] or YYYYWww[D]: the week starts at position p + 1
WeekDate(d, year, p, has_sep) ==
    LET week    == Num(d, p + 1, 2)
        has_day == Len(d) > p + 2
        sep_ok  == ~has_day \/ ((d[p + 3] = "-") = has_sep)
        day     == IF ~has_day THEN 1
                   ELSE Num(d, p + 3 + (IF has_sep THEN 1 ELSE 0), 1)
        ord_day == IsoWeek1Monday(year) + (week - 1) * 7 + (day - 1)
    IN  IF /\ week >= 0 /\ sep_ok
           /\ year >= 1
           /\ (week \in 1..52 \/ (week = 53 /\ HasWeek53(year)))
           /\ day \in 1..7
           /\ ord_day >= 1 /\ ord_day <= MaxOrdinal
        THEN LET r == Ord2Ymd(ord_day, year) IN Date(r.year, r.month, r.day)
        ELSE NoDate

\* YYYY-MM-DD or YYYYMMDD: the month starts at position p
CalendarDate(d, year, p, has_sep) ==
    LET month  == Num(d, p, 2)
        sep_ok == (p + 2 <= Len(d) /\ d[p + 2] = "-") = has_sep
        day    == Num(d, p + 2 + (IF has_sep THEN 1 ELSE 0), 2)
    IN  IF /\ sep_ok /\ year >= 1 /\ month \in 1..12
           /\ day >= 1 /\ day <= DaysInMonth(year, month)
        THEN Date(year, month, day)
        ELSE NoDate

\* The date part of an ISO text
ParseDate(d) ==
    LET year    == Num(d, 1, 4)
        has_sep == Len(d) >= 5 /\ d[5] = "-"
        p       == IF has_sep THEN 6 ELSE 5
    IN  IF Len(d) \notin {7, 8, 10} \/ year < 0 THEN NoDate
        ELSE IF d[p] = "W" THEN WeekDate(d, year, p, has_sep)
        ELSE CalendarDate(d, year, p, has_sep)

\* datetime.fromisoformat(t) for a text of at most 10 characters, which is
\* what first_registration_iso[:10] is: a calendar date (YYYY-MM-DD,
\* YYYYMMDD) or a week date (YYYY-Www, YYYY-Www-D, YYYYWww, YYYYWwwD); after
\* YYYYWww one more character and a two-digit hour fit.  ok = FALSE stands
\* for the ValueError.
fromisoformat(t) ==
    IF Len(t) < 7 \/ Len(t) > 10 THEN NoDate
    ELSE LET n == DateLength(t)
         IN  IF n = 0 THEN NoDate
             ELSE IF Len(t) > n
                     /\ ~(Len(t) = n + 3 /\ Num(t, n + 2, 2) \in 0..23)
             THEN NoDate
             ELSE ParseDate(Prefix(t, n))

\* _years_since; clock is datetime.utcnow() as [year, month]
years_since(first_registration_iso, clock) ==
    LET d == fromisoformat(Prefix(first_registration_iso, 10))
    IN  IF ~d.ok THEN FZero
        ELSE FMax(FZero, FDiv(FInt((clock.year - d.year) * 12 + (clock.month - d.month)), 12))

\* _clamp
clamp(v, lo, hi) == FMax(lo, FMin(hi, v))

(***************************************************************************)
(* Valuation                                                               *)
(***************************************************************************)
\* estimate and confidence are in hundredths (cents, percent)
ValuationResponse(e, c) ==
    [status |-> 200, estimate |-> e, currency |-> "EUR", confidence |-> c]

\* An exception that leaves a handler reaches the client as a server error.
ServerError(e) == [status |-> 500, error |-> e]

\* The mask with | in place of &
match_either(ref, make, model) ==
    LET Hit(r) == r.make = make \/ r.model = model
    IN  SelectSeq(ref, Hit)

\* REF_DATA[(REF_DATA["make"] == make) & (REF_DATA["model"] == model)]
match(ref, make, model) ==
    LET Hit(r) == r.make = make /\ r.model = model
    IN  SelectSeq(ref, Hit)

\* row["base_price"] or row["year0"] when the frame has that label twice: a
\* Series, which float() and int() reject
Ambiguous == [ambiguous |-> TRUE]
IsAmbiguous(v) == "ambiguous" \in DOMAIN v

\* (1 - ANNUAL_DEPRECIATION) ** years for years close to a whole number m of
\* twelfths: b^(m div 12) * b^((m % 12) / 12) * (1 + (12 years - m) ln(b) / 12)
\* to over 90 bits (the last factor's second term to over 45), rounded as
\* pow rounds it
year_factor(years) ==
    LET b == FSub(F1, ANNUAL_DEPRECIATION)
        m == DRound(DMul(DInt(12), years))
        p == IF m % 12 = 0 THEN WPow(b, m \div 12)
             ELSE WMul(WPow(b, m \div 12), Dyadic(FALSE, RetentionRoot12[m % 12], -105))
        delta == DSub(DMul(DInt(12), years), DInt(m))
        x == IF DIsZero(delta) THEN p
             ELSE DSub(p, KeepTop(DMul(DMul(KeepTop(p, 4), delta),
                                       Dyadic(FALSE, RetentionLog12, -52)), 4))
    IN  IF m \in PowFartherMonths /\ years = FDiv(FInt(m), 12) THEN Farther(x) ELSE Float(x)

\* The mileage term added instead of subtracted
mileage_factor_rising(mileage) ==
    FAdd(F1, FMul(PER_10K_DEPRECIATION, FDiv(FInt(mileage), MILEAGE_BUCKET)))

mileage_factor(mileage) ==
    LET mileage_blocks == FDiv(FInt(mileage), MILEAGE_BUCKET)
    IN  FSub(F1, FMul(PER_10K_DEPRECIATION, mileage_blocks))

estimate_of(base_price, years, mileage) ==
    LET raw       == FMul(FMul(base_price, year_factor(years)), mileage_factor(mileage))
        min_value == FMul(base_price, MIN_RETENTION)
    IN  clamp(raw, FMul(min_value, F0_8), FMul(base_price, F1_05))

\* The confidence without its clamp
confidence_unclamped(year_gap, mileage) ==
    FSub(FSub(F0_9, FMul(FInt(year_gap), F0_06)),
         FMin(F0_5, FDiv(FInt(mileage), 200000)))

confidence_of(year_gap, mileage) ==
    clamp(FSub(FSub(F0_9, FMul(FInt(year_gap), F0_06)),
               FMin(F0_5, FDiv(FInt(mileage), 200000))),
          F0_5, F0_9)

\* Lines 159-181 of valuation(): make and model already normalized, years
\* already read from the clock.
valuation_body(ref, make, model, mileage, firstRegistration, years) ==
    LET m == match(ref, make, model)
    IN  IF m = <<>>
        THEN ValuationResponse(1000000, 50)
        ELSE IF IsAmbiguous(m[1].base_price) \/ IsAmbiguous(m[1].year0)
        THEN ServerError("TypeError")
        ELSE \* both columns exist in every catalog load_dataset returns, so
             \* the defaults of lines 166-167 are never taken
             LET base_price == m[1].base_price
                 year0      == DTrunc(m[1].year0)
                 estimate   == estimate_of(base_price, years, mileage)
                 d          == fromisoformat(Prefix(firstRegistration, 10))
             IN  IF ~d.ok
                 THEN ServerError("ValueError")
                 ELSE ValuationResponse(
                          Round2(estimate),
                          Round2(confidence_of(Abs(d.year - year0), mileage)))

\* valuation() with the clock read at the call
valuation(ref, req, clock) ==
    valuation_body(ref, Normalize(req.make), Normalize(req.model), req.mileageKm,
                   req.firstRegistration, years_since(req.firstRegistration, clock))

(***************************************************************************)
(* Reference catalog builder                                               *)
(***************************************************************************)
\* Column names and the keys of the built-in catalog, as strings
c_make == <<"m", "a", "k", "e">>
c_model == <<"m", "o", "d", "e", "l">>
c_base_price == <<"b", "a", "s", "e", "_", "p", "r", "i", "c", "e">>
c_year0 == <<"y", "e", "a", "r", "0">>
c_price == <<"p", "r", "i", "c", "e">>
c_registration_year == <<"r", "e", "g", "i", "s", "t", "r", "a", "t", "i", "o", "n", "_", "y", "e", "a", "r">>
s_tesla == <<"t", "e", "s", "l", "a">>
s_nissan == <<"n", "i", "s", "s", "a", "n">>
s_volkswagen == <<"v", "o", "l", "k", "s", "w", "a", "g", "e", "n">>
s_model_3 == <<"m", "o", "d", "e", "l", " ", "3">>
s_model_y == <<"m", "o", "d", "e", "l", " ", "y">>
s_leaf == <<"l", "e", "a", "f">>
s_id_3 == <<"i", "d", ".", "3">>
s_id_4 == <<"i", "d", ".", "4">>

\* A source file is absent, present but not parseable as a table, or the
\* frame [columns, dtypes, rows] read from it: dtypes and each row are
\* aligned with columns.
Absent == [exists |-> FALSE]
Malformed == [exists |-> TRUE, readable |-> FALSE]
File(t) == [exists |-> TRUE, readable |-> TRUE, table |-> t]

HasCol(columns, name) == \E i \in 1..Len(columns) : columns[i] = name
\* Whether df[name] is a frame of several columns rather than a Series
Repeated(columns, name) == Cardinality({i \in 1..Len(columns) : columns[i] = name}) > 1
\* The position of the column called name
ColIdx(columns, name) == CHOOSE i \in 1..Len(columns) : columns[i] = name

\* The float of a numeric cell
cell_float(dtype, v) == IF dtype = "int64" THEN FInt(v) ELSE FDiv(FInt(v), 100)

\* astype(str) of a cell
astype_str(dtype, v) ==
    IF dtype = "object" THEN v
    ELSE IF dtype = "int64" THEN IntToStr(v)
    ELSE HundredthsToStr(v)

RECURSIVE SortedInts(_)
SortedInts(s) ==
    IF s = <<>> THEN <<>>
    ELSE LET i == CHOOSE j \in 1..Len(s) : \A k \in 1..Len(s) : s[j] <= s[k]
         IN  <<s[i]>> \o SortedInts(SubSeq(s, 1, i - 1) \o SubSeq(s, i + 1, Len(s)))

RECURSIVE SumSeq(_)
SumSeq(s) == IF s = <<>> THEN 0 ELSE Head(s) + SumSeq(Tail(s))

\* The mean in place of the median
median_mean(dtype, s) == FDiv(cell_float(dtype, SumSeq(s)), Len(s))

\* The median of a non-empty column of cells: the middle value, or the mean
\* of the two middle values
median(dtype, s) ==
    LET t == SortedInts(s)
        n == Len(t)
    IN  IF n % 2 = 1 THEN cell_float(dtype, t[(n + 1) \div 2])
        ELSE DScale(FAdd(cell_float(dtype, t[n \div 2]), cell_float(dtype, t[n \div 2 + 1])), -1)

KeyLess(a, b) == IF a[1] # b[1] THEN StrLess(a[1], b[1]) ELSE StrLess(a[2], b[2])

\* The group keys in groupby's (sorted) order
RECURSIVE SortedKeys(_)
SortedKeys(S) ==
    IF S = {} THEN <<>>
    ELSE LET m == CHOOSE x \in S : \A y \in S : y = x \/ KeyLess(x, y)
         IN  <<m>> \o SortedKeys(S \ {m})

Raised(e) == [raised |-> TRUE, error |-> e]
Returned(ref) == [raised |-> FALSE, ref |-> ref]

\* Lines 68-72: the canonical columns, make and model stripped and lowered.
\* .str exists only on a Series of dtype object.
canonical_ref(columns, dtypes, rows) ==
    LET value(r, c) == IF Repeated(columns, c) THEN Ambiguous
                       ELSE cell_float(dtypes[ColIdx(columns, c)], r[ColIdx(columns, c)])
    IN  IF \E c \in {c_make, c_model} :
               Repeated(columns, c) \/ dtypes[ColIdx(columns, c)] # "object"
        THEN Raised("AttributeError")
        ELSE Returned(
                 [i \in 1..Len(rows) |->
                     [make       |-> Normalize(rows[i][ColIdx(columns, c_make)]),
                      model      |-> Normalize(rows[i][ColIdx(columns, c_model)]),
                      base_price |-> value(rows[i], c_base_price),
                      year0      |-> value(rows[i], c_year0)]])

\* The aggregation without the groupby: one row per input row
aggregate_per_row(columns, dtypes, rows) ==
    Returned(
        [i \in 1..Len(rows) |->
            [make       |-> Normalize(astype_str(dtypes[ColIdx(columns, c_make)],
                                                 rows[i][ColIdx(columns, c_make)])),
             model      |-> Normalize(astype_str(dtypes[ColIdx(columns, c_model)],
                                                 rows[i][ColIdx(columns, c_model)])),
             base_price |-> cell_float(dtypes[ColIdx(columns, c_price)],
                                       rows[i][ColIdx(columns, c_price)]),
             year0      |-> FInt(2020)]])

\* Lines 75-91: one row per normalized (make, model), medians of the group.
\* astype(str) of a frame of several columns has no .str either.
aggregate(columns, dtypes, rows) ==
    LET text(r, c) == Normalize(astype_str(dtypes[ColIdx(columns, c)], r[ColIdx(columns, c)]))
        key(r)     == <<text(r, c_make), text(r, c_model)>>
        keys       == SortedKeys({key(rows[i]) : i \in 1..Len(rows)})
        InGroup(k) == LET In(r) == key(r) = k IN SelectSeq(rows, In)
        cells(k, c) == LET g == InGroup(k)
                       IN  [j \in 1..Len(g) |-> g[j][ColIdx(columns, c)]]
        med(k, c)  == median(dtypes[ColIdx(columns, c)], cells(k, c))
    IN  IF Repeated(columns, c_make) \/ Repeated(columns, c_model)
        THEN Raised("AttributeError")
        ELSE Returned(
                 [n \in 1..Len(keys) |->
                     [make       |-> keys[n][1],
                      model      |-> keys[n][2],
                      base_price |-> med(keys[n], c_price),
                      year0      |-> IF HasCol(columns, c_registration_year)
                                     THEN med(keys[n], c_registration_year)
                                     ELSE FInt(2020)]])

\* Lines 94-102
builtin_ref ==
    << [make |-> s_tesla, model |-> s_model_3, base_price |-> FInt(28000), year0 |-> FInt(2019)],
       [make |-> s_tesla, model |-> s_model_y, base_price |-> FInt(35000), year0 |-> FInt(2021)],
       [make |-> s_nissan, model |-> s_leaf, base_price |-> FInt(12000), year0 |-> FInt(2018)],
       [make |-> s_volkswagen, model |-> s_id_3, base_price |-> FInt(20000), year0 |-> FInt(2020)],
       [make |-> s_volkswagen, model |-> s_id_4, base_price |-> FInt(26000), year0 |-> FInt(2021)] >>

\* Lines 51-57: the first existing user file, else the bundled sample
resolve_path(fs) ==
    IF fs.xlsx.exists THEN "xlsx" ELSE IF fs.csv.exists THEN "csv" ELSE "default"

\* Lines 65-75: the schema the normalized column names select
columns_of(t) == [i \in 1..Len(t.columns) |-> Normalize(t.columns[i])]
schema(columns) ==
    IF \A c \in {c_make, c_model, c_base_price, c_year0} : HasCol(columns, c)
    THEN "canonical"
    ELSE IF \A c \in {c_make, c_model, c_price} : HasCol(columns, c)
    THEN "transactional"
    ELSE "unrecognized"

\* _load_dataset
load_dataset(fs) ==
    LET src == fs[resolve_path(fs)]
    IN  IF ~src.exists THEN Raised("FileNotFoundError")
        ELSE IF ~src.readable THEN Raised("ParserError")
        ELSE LET columns == columns_of(src.table)
                 dtypes  == src.table.dtypes
                 rows    == src.table.rows
             IN  IF schema(columns) = "canonical"
                 THEN canonical_ref(columns, dtypes, rows)
                 ELSE IF schema(columns) = "transactional"
                 THEN aggregate(columns, dtypes, rows)
                 ELSE Returned(builtin_ref)

(***************************************************************************)
(* Read-only endpoints                                                     *)
(***************************************************************************)
health(ref) == [status |-> 200, body |-> [status |-> "ok", records |-> Len(ref)]]

get_makes(ref) ==
    [status |-> 200, makes |-> SortedStrs({ref[i].make : i \in 1..Len(ref)})]

get_models(ref, make) ==
    LET make_lower == Normalize(make)
    IN  [status |-> 200,
         models |-> SortedStrs({ref[i].model : i \in {j \in 1..Len(ref) : ref[j].make = make_lower}})]

(***************************************************************************)
(* Inputs of the model                                                     *)
(***************************************************************************)
\* Reference columns (and a price column); two rows share a key once normalized,
\* one price has a cent, one is negative
CanonicalSheet ==
    [columns |-> <<<<" ", "M", "a", "k", "e">>, <<"M", "O", "D", "E", "L", " ">>, <<"B", "a", "s", "e", "_", "P", "r", "i", "c", "e">>, <<"Y", "e", "a", "r", "0">>, <<"p", "r", "i", "c", "e">>>>,
     dtypes  |-> <<"object", "object", "float64", "int64", "int64">>,
     rows    |-> <<<<<<"T", "e", "s", "l", "a", " ">>, <<"Y">>, 2000001, 2019, 100>>,
                  <<<<" ", "t", "e", "s", "l", "a">>, <<"y">>, 3000000, 2021, 100>>,
                  <<<<"N", "i", "s", "s", "a", "n">>, <<"L", "e", "a", "f">>, -50000, 2018, 100>>>>]

\* Reference columns whose model cells are all numbers
NumericModelSheet ==
    [columns |-> <<<<"m", "a", "k", "e">>, <<"m", "o", "d", "e", "l">>, <<"b", "a", "s", "e", "_", "p", "r", "i", "c", "e">>, <<"y", "e", "a", "r", "0">>>>,
     dtypes  |-> <<"object", "int64", "int64", "int64">>,
     rows    |-> <<<<<<"F", "i", "a", "t">>, 500, 25000, 2020>>,
                  <<<<"P", "e", "u", "g", "e", "o", "t">>, 208, 30000, 2021>>>>]

\* Transactional rows with registration years
Transactions ==
    [columns |-> <<<<"m", "a", "k", "e">>, <<"M", "o", "d", "e", "l">>, <<"P", "R", "I", "C", "E">>, <<"r", "e", "g", "i", "s", "t", "r", "a", "t", "i", "o", "n", "_", "y", "e", "a", "r">>>>,
     dtypes  |-> <<"object", "object", "float64", "int64">>,
     rows    |-> <<<<<<"T", "e", "s", "l", "a">>, <<"Y">>, 4000000, 2020>>,
                  <<<<"B", "M", "W">>, <<"i", "3">>, 1500001, 2018>>,
                  <<<<"t", "e", "s", "l", "a", " ">>, <<"y">>, 4200000, 2021>>,
                  <<<<"T", "E", "S", "L", "A">>, <<"Y", " ">>, 3500000, 2022>>,
                  <<<<"b", "m", "w">>, <<"I", "3">>, 1600000, 2019>>>>]

\* Transactional rows without registration years
TransactionsNoYear ==
    [columns |-> <<<<"m", "a", "k", "e">>, <<"m", "o", "d", "e", "l">>, <<"p", "r", "i", "c", "e">>>>,
     dtypes  |-> <<"object", "object", "int64">>,
     rows    |-> <<<<<<"t", "e", "s", "l", "a">>, <<"y">>, 40000>>,
                  <<<<"T", "e", "s", "l", "a">>, <<"Y">>, 44000>>>>]

\* Transactional rows whose model cells are all numbers
NumericModelTransactions ==
    [columns |-> <<<<"m", "a", "k", "e">>, <<"m", "o", "d", "e", "l">>, <<"p", "r", "i", "c", "e">>>>,
     dtypes  |-> <<"object", "int64", "float64">>,
     rows    |-> <<<<<<"F", "i", "a", "t">>, 500, 2500050>>,
                  <<<<"f", "i", "a", "t">>, 500, 2700025>>,
                  <<<<"P", "e", "u", "g", "e", "o", "t">>, 208, 3000000>>>>]

\* Two labels that are both make once normalized
TwoMakeColumns ==
    [columns |-> <<<<" ", "M", "a", "k", "e">>, <<"m", "a", "k", "e">>, <<"m", "o", "d", "e", "l">>, <<"p", "r", "i", "c", "e">>>>,
     dtypes  |-> <<"object", "object", "object", "int64">>,
     rows    |-> <<<<<<"T", "e", "s", "l", "a">>, <<"t", "e", "s", "l", "a">>, <<"Y">>, 40000>>>>]

\* Reference columns with two labels that are both base_price once normalized
TwoBasePriceColumns ==
    [columns |-> <<<<"m", "a", "k", "e">>, <<"m", "o", "d", "e", "l">>, <<"B", "a", "s", "e", "_", "P", "r", "i", "c", "e">>, <<"b", "a", "s", "e", "_", "p", "r", "i", "c", "e">>, <<"y", "e", "a", "r", "0">>>>,
     dtypes  |-> <<"object", "object", "int64", "int64", "int64">>,
     rows    |-> <<<<<<"T", "e", "s", "l", "a">>, <<"Y">>, 30000, 31000, 2020>>>>]

\* Neither schema
OtherSheet ==
    [columns |-> <<<<"b", "r", "a", "n", "d">>, <<"c", "o", "s", "t">>>>,
     dtypes  |-> <<"object", "int64">>,
     rows    |-> <<<<<<"T", "e", "s", "l", "a">>, 100>>>>]

\* The bundled sample
SampleCsv ==
    [columns |-> <<<<"m", "a", "k", "e">>, <<"m", "o", "d", "e", "l">>, <<"b", "a", "s", "e", "_", "p", "r", "i", "c", "e">>, <<"y", "e", "a", "r", "0">>>>,
     dtypes  |-> <<"object", "object", "int64", "int64">>,
     rows    |-> <<<<<<"T", "e", "s", "l", "a">>, <<"Y">>, 45000, 2021>>,
                  <<<<"N", "i", "s", "s", "a", "n">>, <<"L", "e", "a", "f">>, 12000, 2018>>>>]

\* The states of data/ev_data.xlsx, data/ev_data.csv and the bundled sample
FileConfigs ==
    { [xlsx |-> Absent, csv |-> Absent, default |-> Absent],
      [xlsx |-> Absent, csv |-> Malformed, default |-> File(SampleCsv)],
      [xlsx |-> Absent, csv |-> File(Transactions), default |-> Absent],
      [xlsx |-> Absent, csv |-> File(OtherSheet), default |-> File(SampleCsv)],
      [xlsx |-> File(CanonicalSheet), csv |-> File(Transactions), default |-> File(SampleCsv)],
      [xlsx |-> File(TwoBasePriceColumns), csv |-> Absent, default |-> File(SampleCsv)] }

\* (make, model) as typed by clients: two spellings of one vehicle and another
Vehicles ==
    { <<<<" ", "T", "e", "s", "l", "a">>, <<"Y">>>>,
      <<<<"t", "e", "s", "l", "a">>, <<"y", " ">>>>,
      <<<<"N", "i", "s", "s", "a", "n">>, <<"L", "e", "a", "f">>>> }

Mileages == {45000, 120000, 700000}

\* firstRegistration: a past date with a time part, the empty string, the
\* same instant in the basic form (whose first 10 characters end inside the
\* time part)
Dates ==
    { <<"2", "0", "2", "2", "-", "0", "5", "-", "0", "1", "T", "0", "8", ":", "0", "0", ":", "0", "0">>,
      <<>>,
      <<"2", "0", "2", "2", "0", "5", "0", "1", "T", "0", "8", ":", "0", "0", ":", "0", "0">> }

ValuationRequests ==
    { [make |-> v[1], model |-> v[2], mileageKm |-> m, firstRegistration |-> d] :
        v \in Vehicles, m \in Mileages, d \in Dates }

Workers == {"w1", "w2"}

\* datetime.utcnow() when the process starts, and how many months it may advance
StartClock == [year |-> 2024, month |-> 6]
MaxTicks == 1

(***************************************************************************)
(* The process                                                             *)
(***************************************************************************)
NoRequest == [op |-> "none"]
NoResponse == [status |-> 0]
Idle == [pc |-> "idle", req |-> NoRequest, years |-> FZero, resp |-> NoResponse]

Init ==
    /\ files \in FileConfigs
    /\ phase = "boot"
    /\ REF_DATA = <<>>
    /\ now = StartClock
    /\ ticks = 0
    /\ workers = [w \in Workers |-> Idle]

\* Line 120: REF_DATA = _load_dataset() at import; an exception ends the process
Startup ==
    /\ phase = "boot"
    /\ LET r == load_dataset(files)
       IN  IF r.raised
           THEN phase' = "crashed" /\ UNCHANGED REF_DATA
           ELSE phase' = "serving" /\ REF_DATA' = r.ref
    /\ UNCHANGED <<files, now, ticks, workers>>

\* The calendar month changes
Tick ==
    /\ ticks < MaxTicks
    /\ ticks' = ticks + 1
    /\ now' = IF now.month = 12 THEN [year |-> now.year + 1, month |-> 1]
              ELSE [now EXCEPT !.month = @ + 1]
    /\ UNCHANGED <<files, phase, REF_DATA, workers>>

Serve(w, req, resp) ==
    /\ phase = "serving"
    /\ workers[w].pc = "idle"
    /\ workers' = [workers EXCEPT ![w] = [pc |-> "done", req |-> req, years |-> FZero, resp |-> resp]]
    /\ UNCHANGED <<files, phase, REF_DATA, now, ticks>>

Health(w) == Serve(w, [op |-> "health"], health(REF_DATA))

Makes(w) == Serve(w, [op |-> "makes"], get_makes(REF_DATA))

Models(w) ==
    \E v \in Vehicles : Serve(w, [op |-> "models", make |-> v[1]], get_models(REF_DATA, v[1]))

\* Lines 154-157 of valuation(): the clock is read in _years_since
ValuationBegin(w) ==
    \E r \in ValuationRequests :
        /\ phase = "serving"
        /\ workers[w].pc = "idle"
        /\ workers' = [workers EXCEPT ![w] =
                          [pc |-> "valuation", req |-> [op |-> "valuation", body |-> r],
                           years |-> years_since(r.firstRegistration, now),
                           resp |-> NoResponse]]
        /\ UNCHANGED <<files, phase, REF_DATA, now, ticks>>

\* valuation() that rebinds the global to the filtered frame
ValuationEnd_filtering(w) ==
    /\ workers[w].pc = "valuation"
    /\ LET r == workers[w].req.body
       IN  /\ REF_DATA' = match(REF_DATA, Normalize(r.make), Normalize(r.model))
           /\ workers' = [workers EXCEPT ![w] =
                             [@ EXCEPT !.pc = "done",
                                       !.resp = valuation_body(REF_DATA, Normalize(r.make),
                                                    Normalize(r.model), r.mileageKm,
                                                    r.firstRegistration, workers[w].years)]]
    /\ UNCHANGED <<files, phase, now, ticks>>

\* Lines 159-181 of valuation()
ValuationEnd(w) ==
    /\ workers[w].pc = "valuation"
    /\ LET r == workers[w].req.body
       IN  workers' = [workers EXCEPT ![w] =
                          [@ EXCEPT !.pc = "done",
                                    !.resp = valuation_body(REF_DATA, Normalize(r.make),
                                                 Normalize(r.model), r.mileageKm,
                                                 r.firstRegistration, workers[w].years)]]
    /\ UNCHANGED <<files, phase, REF_DATA, now, ticks>>

\* The response leaves; the worker takes the next request
Respond(w) ==
    /\ workers[w].pc = "done"
    /\ workers' = [workers EXCEPT ![w] = Idle]
    /\ UNCHANGED <<files, phase, REF_DATA, now, ticks>>

Next ==
    \/ Startup
    \/ Tick
    \/ \E w \in Workers :
          \/ Health(w)
          \/ Makes(w)
          \/ Models(w)
          \/ ValuationBegin(w)
          \/ ValuationEnd(w)
          \/ Respond(w)

Spec == Init /\ [][Next]_vars

\* The builder over every combination of source-file states, with the
\* read-only endpoints
SourceStates ==
    [xlsx    : {Absent, Malformed, File(CanonicalSheet), File(NumericModelSheet),
                File(TwoBasePriceColumns)},
     csv     : {Absent, Malformed, File(Transactions), File(TransactionsNoYear),
                File(NumericModelTransactions), File(TwoMakeColumns), File(OtherSheet)},
     default : {Absent, File(SampleCsv)}]

InitCatalog ==
    /\ files \in SourceStates
    /\ phase = "boot"
    /\ REF_DATA = <<>>
    /\ now = StartClock
    /\ ticks = 0
    /\ workers = [w \in Workers |-> Idle]

NextCatalog ==
    \/ Startup
    \/ Tick
    \/ \E w \in Workers :
          \/ Health(w)
          \/ Makes(w)
          \/ Models(w)
          \/ Respond(w)

SpecCatalog == InitCatalog /\ [][NextCatalog]_vars

(***************************************************************************)
(* Properties                                                              *)
(***************************************************************************)
\* Worker w holds the response of a /valuation request
Valued(w) == workers[w].pc = "done" /\ workers[w].req.op = "valuation"
Body(w) == workers[w].req.body
Parseable(d) == fromisoformat(Prefix(d, 10)).ok
\* The catalog rows with the request's key, by position
Hits(w) ==
    {i \in 1..Len(REF_DATA) :
        /\ REF_DATA[i].make = Lower(Strip(Body(w).make))
        /\ REF_DATA[i].model = Lower(Strip(Body(w).model))}
FirstHit(w) == REF_DATA[CHOOSE i \in Hits(w) : \A j \in Hits(w) : i <= j]
SameText(a, b) == Lower(Strip(a)) = Lower(Strip(b))
\* The frame the builder read, and its normalized column names
SourceTable == files[resolve_path(files)].table
SourceColumns == [i \in 1..Len(SourceTable.columns) |-> Lower(Strip(SourceTable.columns[i]))]
HasAll(cols, names) == \A c \in names : HasCol(cols, c)
SourceDtype(c) == SourceTable.dtypes[ColIdx(SourceColumns, c)]
\* The text of row r in key column c
SourceText(r, c) == astype_str(SourceDtype(c), r[ColIdx(SourceColumns, c)])
UniqueKeys(ref) ==
    \A i, j \in 1..Len(ref) :
        (ref[i].make = ref[j].make /\ ref[i].model = ref[j].model) => i = j
\* e hundredths against k hundredths per unit of the double b: -1, 0, 1 as
\* e is below, at or above k * b
Against(e, k, b) == DCmp(DInt(e), DMul(DInt(k), b))

\* C1: every valid /valuation request (parseable firstRegistration) is
\* answered with an estimate >= 0 that, when an archetype matches, lies in
\* [0.8 * 0.35 * basePrice, 1.05 * basePrice].  (estimate in cents,
\* base_price in units: e >= 28 b and e <= 105 b.)
C1_EstimateInInterval ==
    \A w \in Workers :
        (Valued(w) /\ Parseable(Body(w).firstRegistration)) =>
            /\ workers[w].resp.status = 200
            /\ workers[w].resp.estimate >= 0
            /\ Hits(w) # {} =>
                  /\ Against(workers[w].resp.estimate, 28, FirstHit(w).base_price) >= 0
                  /\ Against(workers[w].resp.estimate, 105, FirstHit(w).base_price) <= 0

\* C2 as stated: a matching request with an empty or unparseable
\* firstRegistration raises no error and returns estimate and confidence.
C2_UnparseableDateAnswered ==
    \A w \in Workers :
        (Valued(w) /\ ~Parseable(Body(w).firstRegistration) /\ Hits(w) # {}) =>
            workers[w].resp.status = 200

\* C3 as stated: the build never raises, and an absent, malformed or
\* unrecognized input yields the built-in five-row catalog.
C3_BuildNeverRaises ==
    /\ phase # "crashed"
    /\ (phase = "serving" /\ ~HasAll(SourceColumns, {c_make, c_model, c_base_price, c_year0})
                          /\ ~HasAll(SourceColumns, {c_make, c_model, c_price})) =>
           REF_DATA = builtin_ref

\* C4 as stated: on every schema path the built catalog has no two rows
\* with the same normalized (make, model).
C4_KeysUnique == phase = "serving" => UniqueKeys(REF_DATA)

\* C4 amended: keys are unique in a catalog built by transactional
\* aggregation or taken from the built-in fallback; the canonical
\* pass-through keeps one catalog row per input row, in order, with the
\* row's normalized key, so input rows that share a key stay duplicated.
C4_KeysUniqueUnlessPassThrough ==
    phase = "serving" =>
        IF HasAll(SourceColumns, {c_make, c_model, c_base_price, c_year0})
        THEN /\ Len(REF_DATA) = Len(SourceTable.rows)
             /\ \A i \in 1..Len(REF_DATA) :
                   /\ REF_DATA[i].make = Lower(Strip(SourceText(SourceTable.rows[i], c_make)))
                   /\ REF_DATA[i].model = Lower(Strip(SourceText(SourceTable.rows[i], c_model)))
        ELSE UniqueKeys(REF_DATA)

\* C4 witness: a catalog aggregated from more transactional rows than keys
C4_Witness ==
    /\ phase = "serving"
    /\ ~HasAll(SourceColumns, {c_make, c_model, c_base_price, c_year0})
    /\ HasAll(SourceColumns, {c_make, c_model, c_price})
    /\ Len(REF_DATA) > 1
    /\ Len(SourceTable.rows) > Len(REF_DATA)

\* C5: a request whose normalized (make, model) matches no catalog row is
\* answered with exactly estimate 10000.00 and confidence 0.50, whatever its
\* mileage and firstRegistration.
C5_NoMatchDefault ==
    \A w \in Workers :
        (Valued(w) /\ Hits(w) = {}) =>
            workers[w].resp =
                [status |-> 200, estimate |-> 1000000, currency |-> "EUR", confidence |-> 50]

\* C5 witness: an unmatched request with an unparseable date was answered
C5_Witness ==
    \E w \in Workers :
        /\ Valued(w) /\ Hits(w) = {} /\ Len(REF_DATA) > 0
        /\ ~Parseable(Body(w).firstRegistration)
        /\ Body(w).mileageKm > 0

\* C6: every returned confidence lies in [0.50, 0.90].
C6_ConfidenceBounded ==
    \A w \in Workers :
        (Valued(w) /\ workers[w].resp.status = 200) =>
            workers[w].resp.confidence >= 50 /\ workers[w].resp.confidence <= 90

\* C6 witness: a matched request whose unclamped confidence is below 0.5
\* (0.9 - 0.5 for mileage >= 100000 km) was answered with 0.50
C6_Witness ==
    \E w \in Workers :
        /\ Valued(w) /\ Hits(w) # {} /\ workers[w].resp.status = 200
        /\ Body(w).mileageKm >= 100000
        /\ workers[w].resp.confidence = 50

\* Two answered /valuation requests that read the same clock and differ at
\* most in mileageKm
SameButMileage(v, w) ==
    /\ Valued(v) /\ Valued(w)
    /\ Body(v).make = Body(w).make /\ Body(v).model = Body(w).model
    /\ Body(v).firstRegistration = Body(w).firstRegistration
    /\ workers[v].years = workers[w].years
    /\ workers[v].resp.status = 200 /\ workers[w].resp.status = 200

\* C7: of two such requests the one with the higher mileage never gets the
\* higher estimate.
C7_MonotoneInMileage ==
    \A v, w \in Workers :
        (SameButMileage(v, w) /\ Body(v).mileageKm <= Body(w).mileageKm) =>
            workers[w].resp.estimate <= workers[v].resp.estimate

\* C7 witness: a matched pair with different mileages whose estimates are
\* both strictly inside the clamp's interval, the higher mileage with the
\* strictly lower estimate
C7_Witness ==
    \E v, w \in Workers :
        /\ SameButMileage(v, w) /\ Hits(v) # {}
        /\ Body(v).mileageKm < Body(w).mileageKm
        /\ workers[w].resp.estimate < workers[v].resp.estimate
        /\ Against(workers[w].resp.estimate - 1, 28, FirstHit(w).base_price) > 0
        /\ Against(workers[v].resp.estimate + 1, 105, FirstHit(v).base_price) < 0

\* C8: two /valuation requests whose make and model are equal after
\* trimming and lower-casing (other inputs and the clock equal), and two
\* /models requests whose make is, get identical responses.
C8_LookupIgnoresCaseAndSpace ==
    \A v, w \in Workers :
        /\ (/\ Valued(v) /\ Valued(w)
            /\ SameText(Body(v).make, Body(w).make)
            /\ SameText(Body(v).model, Body(w).model)
            /\ Body(v).mileageKm = Body(w).mileageKm
            /\ Body(v).firstRegistration = Body(w).firstRegistration
            /\ workers[v].years = workers[w].years)
           => workers[v].resp = workers[w].resp
        /\ (/\ workers[v].pc = "done" /\ workers[w].pc = "done"
            /\ workers[v].req.op = "models" /\ workers[w].req.op = "models"
            /\ SameText(workers[v].req.make, workers[w].req.make))
           => workers[v].resp = workers[w].resp

\* C8 witness: two differently spelled requests for one archetype were both
\* answered from its row
C8_Witness ==
    \E v, w \in Workers :
        /\ Valued(v) /\ Valued(w)
        /\ Body(v).make # Body(w).make /\ Body(v).model # Body(w).model
        /\ SameText(Body(v).make, Body(w).make) /\ SameText(Body(v).model, Body(w).model)
        /\ Hits(v) # {} /\ Hits(w) # {}
        /\ workers[v].resp.status = 200
        /\ workers[v].resp = workers[w].resp

\* The clock k months after the process started
ClockAfter(k) ==
    LET t == StartClock.year * 12 + (StartClock.month - 1) + k
    IN  [year |-> t \div 12, month |-> (t % 12) + 1]

\* The response to req of a process started on the files fs that serves
\* nothing else and runs the whole handler at the instant clock
ServedAlone(fs, req, clock) ==
    LET ref == load_dataset(fs).ref
    IN  IF req.op = "health" THEN health(ref)
        ELSE IF req.op = "makes" THEN get_makes(ref)
        ELSE IF req.op = "models" THEN get_models(ref, req.make)
        ELSE valuation(ref, req.body, clock)

\* C9: once built, the catalog never changes; a step of one request leaves
\* every other request's state alone; a /valuation request reads the clock
\* once, when it starts; and every response, however the requests
\* interleave, is the one a process freshly started on the same files
\* gives to that request alone at the instant the request read the clock.
C9_RequestsIndependent ==
    [][/\ phase = "serving" => (REF_DATA' = REF_DATA /\ phase' = phase /\ files' = files)
       /\ \A w \in Workers :
             workers'[w] # workers[w] =>
                /\ \A o \in Workers \ {w} : workers'[o] = workers[o]
                /\ workers'[w].pc = "valuation" =>
                      workers'[w].years =
                          years_since(workers'[w].req.body.firstRegistration, now)
                /\ workers'[w].pc = "done" =>
                      IF workers'[w].req.op = "valuation"
                      THEN \E k \in 0..ticks :
                              /\ workers[w].years =
                                     years_since(workers'[w].req.body.firstRegistration,
                                                 ClockAfter(k))
                              /\ workers'[w].resp =
                                     ServedAlone(files, workers'[w].req, ClockAfter(k))
                      ELSE workers'[w].resp = ServedAlone(files, workers'[w].req, now)]_vars

\* C9 witness: a /valuation response computed after the clock moved on,
\* while the other worker is inside its own /valuation
C9_Witness ==
    /\ phase = "serving"
    /\ \E v, w \in Workers :
          /\ Valued(v) /\ Hits(v) # {} /\ workers[v].resp.status = 200
          /\ workers[v].years # years_since(Body(v).firstRegistration, now)
          /\ workers[w].pc = "valuation"

\* The k-th smallest value of a sequence, by counting
OrderStat(s, k) ==
    CHOOSE x \in {s[i] : i \in 1..Len(s)} :
        /\ Cardinality({i \in 1..Len(s) : s[i] < x}) < k
        /\ Cardinality({i \in 1..Len(s) : s[i] <= x}) >= k
\* The median as half the float sum of the two middle order statistics
MedianOf(dtype, s) ==
    DScale(FAdd(cell_float(dtype, OrderStat(s, (Len(s) + 1) \div 2)),
                cell_float(dtype, OrderStat(s, Len(s) \div 2 + 1))), -1)
\* The cells of column c in the input rows whose normalized key is (mk, md)
GroupCells(mk, md, c) ==
    LET In(r) == /\ Lower(Strip(SourceText(r, c_make))) = mk
                 /\ Lower(Strip(SourceText(r, c_model))) = md
        g == SelectSeq(SourceTable.rows, In)
    IN  [j \in 1..Len(g) |-> g[j][ColIdx(SourceColumns, c)]]
GroupMedian(i, c) ==
    MedianOf(SourceDtype(c), GroupCells(REF_DATA[i].make, REF_DATA[i].model, c))

\* The value the pass-through keeps for row r under label c: the cell as a
\* float, or every cell of the label when it occurs twice
SourceValue(r, c) ==
    IF Repeated(SourceColumns, c) THEN Ambiguous
    ELSE cell_float(SourceDtype(c), r[ColIdx(SourceColumns, c)])

\* C10: with make, model, price but not all canonical columns, the catalog
\* has exactly one row per normalized (make, model) of the input, its
\* base_price the median of the group's price and its year0 the median of
\* the group's registration_year, or 2020 without that column; with all four
\* canonical columns the rows are taken as they are, price column or not.
C10_SchemaDetection ==
    phase = "serving" =>
        IF HasAll(SourceColumns, {c_make, c_model, c_base_price, c_year0})
        THEN /\ Len(REF_DATA) = Len(SourceTable.rows)
             /\ \A i \in 1..Len(REF_DATA) :
                   /\ REF_DATA[i].base_price = SourceValue(SourceTable.rows[i], c_base_price)
                   /\ REF_DATA[i].year0 = SourceValue(SourceTable.rows[i], c_year0)
        ELSE HasAll(SourceColumns, {c_make, c_model, c_price}) =>
             /\ UniqueKeys(REF_DATA)
             /\ \A r \in 1..Len(SourceTable.rows) : \E i \in 1..Len(REF_DATA) :
                   /\ SameText(SourceText(SourceTable.rows[r], c_make), REF_DATA[i].make)
                   /\ SameText(SourceText(SourceTable.rows[r], c_model), REF_DATA[i].model)
             /\ \A i \in 1..Len(REF_DATA) :
                   /\ GroupCells(REF_DATA[i].make, REF_DATA[i].model, c_price) # <<>>
                   /\ REF_DATA[i].base_price = GroupMedian(i, c_price)
                   /\ REF_DATA[i].year0 =
                          IF HasCol(SourceColumns, c_registration_year)
                          THEN GroupMedian(i, c_registration_year)
                          ELSE FInt(2020)

\* C10 witness: a catalog aggregated from transactions with registration
\* years, one group of three rows and one of two whose median price is the
\* price of neither row
C10_Witness ==
    /\ phase = "serving"
    /\ ~HasAll(SourceColumns, {c_make, c_model, c_base_price, c_year0})
    /\ HasAll(SourceColumns, {c_make, c_model, c_price, c_registration_year})
    /\ \E i, j \in 1..Len(REF_DATA) :
          /\ Len(GroupCells(REF_DATA[i].make, REF_DATA[i].model, c_price)) = 3
          /\ LET g == GroupCells(REF_DATA[j].make, REF_DATA[j].model, c_price)
             IN  /\ Len(g) = 2
                 /\ \A k \in 1..2 :
                       cell_float(SourceDtype(c_price), g[k]) # REF_DATA[j].base_price

====
